---- MODULE Spec2Model ----
(***************************************************************************)
(* A model of round_corners.py: add_rounded_corners(input_path,            *)
(* output_path, radius) and the entry point that calls it twice.           *)
(*                                                                         *)
(* An image is a record [mode, size, rgb, alpha]; rgb and alpha are        *)
(* functions from the pixels <<x, y>> of the image to 0..255 (rgb stands   *)
(* for the three colour bands, which the program never touches apart).     *)
(* The imaging library's operations the script calls are modelled by what  *)
(* they compute: convert("RGBA"), Image.new, ImageDraw.rounded_rectangle   *)
(* (its dispatch on joined corners, the filled ellipse / pieslice rows of  *)
(* the rasteriser, the inclusive rectangles), ImageChops.multiply,         *)
(* putalpha and the lossless PNG save / open round trip.                   *)
(***************************************************************************)
EXTENDS Integers, Sequences, FiniteSets, TLC

VARIABLES args, sched, fs, fs0, writable, pc, img, mask, new_alpha, branch,
          written, printed

vars == <<args, sched, fs, fs0, writable, pc, img, mask, new_alpha, branch,
          written, printed>>

(***************************************************************************)
(* Bounds of the model and constants of the program.                       *)
(***************************************************************************)
\* largest image side drawn for a call of add_rounded_corners
MaxSide == 12
\* largest radius drawn for a call of add_rounded_corners
MaxRadius == 5
\* largest side of the logo image the entry point reads
MaxLogoSide == 2
\* radius=50 of both calls of the entry point
MainRadius == 50
\* fill=255 of the rounded rectangle, also the largest channel value
MaxVal == 255

Calls == 1 .. 2

Abs(n) == IF n < 0 THEN -n ELSE n

(***************************************************************************)
(* Images and files.                                                       *)
(***************************************************************************)
Pixels(w, h) == (0 .. w - 1) \X (0 .. h - 1)

NoChannel == <<>>

NoFile == [mode |-> "missing", size |-> <<0, 0>>, rgb |-> NoChannel, alpha |-> NoChannel]

NoImage == [mode |-> "none", size |-> <<0, 0>>, rgb |-> NoChannel, alpha |-> NoChannel]

\* the colour bands of the test images
RgbPattern(w, h) == [p \in Pixels(w, h) |-> (40 + 70 * p[1] + 13 * p[2]) % 256]

\* the alpha bands of the test images: opaque, a gradient through 0 and 255, a half-transparent one
AlphaPattern(k, w, h) ==
    [p \in Pixels(w, h) |->
        CASE k = "opaque" -> MaxVal
          [] k = "gradient" -> (85 * (p[1] + 2 * p[2])) % 256
          [] OTHER -> IF (p[1] + p[2]) % 2 = 0 THEN 128 ELSE 0]

AlphaKinds == {"opaque", "gradient", "checker"}

RGBAFile(k, w, h) ==
    [mode |-> "RGBA", size |-> <<w, h>>, rgb |-> RgbPattern(w, h), alpha |-> AlphaPattern(k, w, h)]

RGBFile(w, h) ==
    [mode |-> "RGB", size |-> <<w, h>>, rgb |-> RgbPattern(w, h), alpha |-> NoChannel]

ImageFiles(maxw, maxh) ==
    {RGBFile(w, h) : w \in 1 .. maxw, h \in 1 .. maxh}
        \cup {RGBAFile(k, w, h) : k \in AlphaKinds, w \in 1 .. maxw, h \in 1 .. maxh}

\* a file some earlier run left at an output path
OldFile == RGBAFile("checker", 1, 1)

(***************************************************************************)
(* Image.open(input_path).convert("RGBA"): an image without an alpha band  *)
(* gets one that is 255 everywhere; colours are kept.                      *)
(***************************************************************************)
ConvertDropsAlpha(f) ==
    [mode |-> "RGBA", size |-> f.size, rgb |-> f.rgb,
     alpha |-> [p \in Pixels(f.size[1], f.size[2]) |-> MaxVal]]

ConvertNot(f) == f

ConvertRGBA(f) ==
    IF f.mode = "RGBA"
    THEN f
    ELSE [mode |-> "RGBA", size |-> f.size, rgb |-> f.rgb,
          alpha |-> [p \in Pixels(f.size[1], f.size[2]) |-> MaxVal]]

(***************************************************************************)
(* Image.new('L', (width, height), 0)                                      *)
(***************************************************************************)
MaskSizeSwapped(width, height) == <<height, width>>

MaskSize(width, height) == <<width, height>>

NewL(size) == [p \in Pixels(size[1], size[2]) |-> 0]

(***************************************************************************)
(* The rasteriser behind ImageDraw: a filled ellipse in the bounding box   *)
(* (x0, y0)-(x1, y1), both corners inclusive, is drawn row by row.  With   *)
(* a = x1 - x0 and b = y1 - y0 the rows are found by walking one quarter   *)
(* of the curve in doubled coordinates from (a, b % 2) to (a % 2, b),      *)
(* each step going to the neighbour (up, diagonal, left) that deviates     *)
(* least from the curve.                                                   *)
(***************************************************************************)
QuarterDelta(a, b, x, y) == Abs(a * a * y * y + b * b * x * x - a * a * b * b)

QuarterNext(a, b, cx, cy) ==
    LET up == <<cx, cy + 2>>
        diag == <<cx - 2, cy + 2>>
        left == <<cx - 2, cy>>
        d(q) == QuarterDelta(a, b, q[1], q[2])
        first == IF cx > 1 /\ d(up) > d(diag) THEN diag ELSE up
    IN  IF cx > 1 /\ d(first) > d(left) THEN left ELSE first

RECURSIVE QuarterWalk(_, _, _, _)
QuarterWalk(a, b, cx, cy) ==
    IF cx = a % 2 /\ cy = b
    THEN {<<cx, cy>>}
    ELSE LET n == QuarterNext(a, b, cx, cy)
         IN  {<<cx, cy>>} \cup QuarterWalk(a, b, n[1], n[2])

\* the half width of row y: the first point the walk reaches in that row
RowExtent(pts, y) ==
    LET xs == {q[1] : q \in {r \in pts : r[2] = y}}
    IN  CHOOSE x \in xs : \A z \in xs : z <= x

\* a pie slice between two multiples of 90 degrees (clockwise from 3 o'clock,
\* y pointing down) keeps the part of each row on its side of the axes
InSlice(X, Y, start, end) ==
    CASE start = 180 /\ end = 270 -> X <= 0 /\ Y <= 0
      [] start = 270 /\ end = 360 -> X >= 0 /\ Y <= 0
      [] start = 0 /\ end = 90 -> X >= 0 /\ Y >= 0
      [] start = 90 /\ end = 180 -> X <= 0 /\ Y >= 0
      [] start = 180 /\ end = 360 -> Y <= 0
      [] start = 0 /\ end = 180 -> Y >= 0
      [] start = 90 /\ end = 270 -> X <= 0
      [] start = 270 /\ end = 90 -> X >= 0
      [] OTHER -> TRUE

DrawPieslice(x0, y0, x1, y1, start, end) ==
    LET a == x1 - x0
        b == y1 - y0
        pts == QuarterWalk(a, b, a, b % 2)
    IN  {p \in (x0 .. x1) \X (y0 .. y1) :
            LET X == 2 * (p[1] - x0) - a
                Y == 2 * (p[2] - y0) - b
            IN  Abs(X) <= RowExtent(pts, Abs(Y)) /\ InSlice(X, Y, start, end)}

DrawEllipse(x0, y0, x1, y1) == DrawPieslice(x0, y0, x1, y1, 0, 360)

DrawRectangle(x0, y0, x1, y1) == (x0 .. x1) \X (y0 .. y1)

(***************************************************************************)
(* ImageDraw.rounded_rectangle([(x0, y0), (x1, y1)], radius, fill): the    *)
(* set of pixels it fills.  Corners that meet are joined (full_x,          *)
(* full_y); when all four meet the shape is an ellipse, with no curve it   *)
(* is a rectangle, otherwise pie slices in the corners and rectangles      *)
(* between them (the rectangle between the corners is drawn whenever it    *)
(* holds at least one column).                                             *)
(***************************************************************************)
PlainRectangle(x0, y0, x1, y1, radius) == DrawRectangle(x0, y0, x1, y1)

WholeEllipse(x0, y0, x1, y1, radius) == DrawEllipse(x0, y0, x1, y1)

RoundedRectangle(x0, y0, x1, y1, radius) ==
    LET d0 == radius * 2
        full_x == d0 >= x1 - x0 - 1
        d1 == IF full_x THEN x1 - x0 ELSE d0
        full_y == d1 >= y1 - y0 - 1
        d == IF full_y THEN y1 - y0 ELSE d1
        r == d \div 2
    IN  IF full_x /\ full_y THEN DrawEllipse(x0, y0, x1, y1)
        ELSE IF d = 0 THEN DrawRectangle(x0, y0, x1, y1)
        ELSE IF full_x THEN
            DrawPieslice(x0, y0, x0 + d, y0 + d, 180, 360)
                \cup DrawPieslice(x0, y1 - d, x0 + d, y1, 0, 180)
                \cup DrawRectangle(x0, y0 + r + 1, x1, y1 - r - 1)
        ELSE IF full_y THEN
            DrawPieslice(x0, y0, x0 + d, y0 + d, 90, 270)
                \cup DrawPieslice(x1 - d, y0, x1, y0 + d, 270, 90)
                \cup DrawRectangle(x0 + r + 1, y0, x1 - r - 1, y1)
        ELSE
            DrawPieslice(x0, y0, x0 + d, y0 + d, 180, 270)
                \cup DrawPieslice(x1 - d, y0, x1, y0 + d, 270, 360)
                \cup DrawPieslice(x1 - d, y1 - d, x1, y1, 0, 90)
                \cup DrawPieslice(x0, y1 - d, x0 + d, y1, 90, 180)
                \cup DrawRectangle(x0 + r + 1, y0, x1 - r - 1, y1)
                \cup DrawRectangle(x0, y0 + r + 1, x0 + r, y1 - r - 1)
                \cup DrawRectangle(x1 - r, y0 + r + 1, x1, y1 - r - 1)

\* draw.rounded_rectangle([(0, 0), (width, height)], radius=radius, fill=255)
\* on the mask m; what falls outside the image is not drawn
DrawMask(m, width, height, radius) ==
    LET inside == RoundedRectangle(0, 0, width, height, radius)
    IN  [p \in DOMAIN m |-> IF p \in inside THEN MaxVal ELSE m[p]]

(***************************************************************************)
(* ImageChops.multiply(alpha, mask): per pixel a * b / 255, in integers.   *)
(***************************************************************************)
MultiplyWrap(a, b) == (a * b) % 256

MultiplyShift(a, b) == (a * b) \div 256

Multiply(a, b) == (a * b) \div MaxVal

ChopsMultiply(im1, im2) == [p \in DOMAIN im1 |-> Multiply(im1[p], im2[p])]

\* lines 17-23: the new alpha band, and the branch that made it
MaskOnly(image, m) == [band |-> m, branch |-> "multiply"]

NewAlpha(image, m) ==
    IF image.mode = "RGBA"
    THEN [band |-> ChopsMultiply(image.alpha, m), branch |-> "multiply"]
    ELSE [band |-> m, branch |-> "mask"]

\* img.putalpha(new_alpha)
PutAlphaBand(image, band) == [image EXCEPT !.mode = "RGBA", !.alpha = band]

\* the whole transform of one call, from the decoded file to the saved one
RoundCorners(f, radius) ==
    LET image == ConvertRGBA(f)
        size == MaskSize(image.size[1], image.size[2])
        m == DrawMask(NewL(size), image.size[1], image.size[2], radius)
    IN  PutAlphaBand(image, NewAlpha(image, m).band)

(***************************************************************************)
(* Paths, and the calls a run makes.                                       *)
(***************************************************************************)
InPath == "in.png"
OutPath == "out.png"
Out2Path == "out2.png"
LogoPath == "logo_no_background_light.png"
FaviconPath == "favicon.png"
PublicFaviconPath == "public/favicon.png"

Paths == {InPath, OutPath, Out2Path, LogoPath, FaviconPath, PublicFaviconPath}

\* the entry point, lines 33-34
MainArgsSameOutput ==
    [c \in Calls |-> [in |-> LogoPath, out |-> FaviconPath, radius |-> MainRadius]]

MainArgs ==
    [c \in Calls |->
        [in |-> LogoPath,
         out |-> IF c = 1 THEN FaviconPath ELSE PublicFaviconPath,
         radius |-> MainRadius]]

\* one call on an image, then one on its own output with the same radius
RerunArgs(radius) ==
    [c \in Calls |->
        [in |-> IF c = 1 THEN InPath ELSE OutPath,
         out |-> IF c = 1 THEN OutPath ELSE Out2Path,
         radius |-> radius]]

\* an uncaught error ends the program: a call starts when the one before it
\* returned (or, in a parallel run, whenever it is scheduled)
CanStartAfterFailure(c) ==
    IF sched = "par" THEN TRUE ELSE IF c = 1 THEN TRUE ELSE pc[c - 1] \in {"done", "failed"}

CanStart(c) ==
    IF sched = "par" THEN TRUE ELSE IF c = 1 THEN TRUE ELSE pc[c - 1] = "done"

Width(c) == img[c].size[1]
Height(c) == img[c].size[2]

(***************************************************************************)
(* The steps of add_rounded_corners.                                       *)
(***************************************************************************)
\* lines 6-7, the file decodes
Open(c) ==
    /\ pc[c] = "start"
    /\ CanStart(c)
    /\ fs[args[c].in] # NoFile
    /\ img' = [img EXCEPT ![c] = ConvertRGBA(fs[args[c].in])]
    /\ pc' = [pc EXCEPT ![c] = "opened"]
    /\ UNCHANGED <<args, sched, fs, fs0, writable, mask, new_alpha, branch, written, printed>>

\* line 6, the file is missing or does not decode: the error is not caught
OpenFail(c) ==
    /\ pc[c] = "start"
    /\ CanStart(c)
    /\ fs[args[c].in] = NoFile
    /\ pc' = [pc EXCEPT ![c] = "failed"]
    /\ UNCHANGED <<args, sched, fs, fs0, writable, img, mask, new_alpha, branch, written, printed>>

\* lines 10-11
NewMask(c) ==
    /\ pc[c] = "opened"
    /\ mask' = [mask EXCEPT ![c] = NewL(MaskSize(Width(c), Height(c)))]
    /\ pc' = [pc EXCEPT ![c] = "mask"]
    /\ UNCHANGED <<args, sched, fs, fs0, writable, img, new_alpha, branch, written, printed>>

\* line 14
Draw(c) ==
    /\ pc[c] = "mask"
    /\ mask' = [mask EXCEPT ![c] = DrawMask(mask[c], Width(c), Height(c), args[c].radius)]
    /\ pc' = [pc EXCEPT ![c] = "drawn"]
    /\ UNCHANGED <<args, sched, fs, fs0, writable, img, new_alpha, branch, written, printed>>

\* lines 17-23
Combine(c) ==
    /\ pc[c] = "drawn"
    /\ new_alpha' = [new_alpha EXCEPT ![c] = NewAlpha(img[c], mask[c]).band]
    /\ branch' = [branch EXCEPT ![c] = NewAlpha(img[c], mask[c]).branch]
    /\ pc' = [pc EXCEPT ![c] = "combined"]
    /\ UNCHANGED <<args, sched, fs, fs0, writable, img, mask, written, printed>>

\* line 26
PutAlpha(c) ==
    /\ pc[c] = "combined"
    /\ img' = [img EXCEPT ![c] = PutAlphaBand(img[c], new_alpha[c])]
    /\ pc' = [pc EXCEPT ![c] = "applied"]
    /\ UNCHANGED <<args, sched, fs, fs0, writable, mask, new_alpha, branch, written, printed>>

\* line 29, the file is written (created or overwritten)
Save(c) ==
    /\ pc[c] = "applied"
    /\ args[c].out \in writable
    /\ fs' = [fs EXCEPT ![args[c].out] = img[c]]
    /\ written' = Append(written, args[c].out)
    /\ pc' = [pc EXCEPT ![c] = "saved"]
    /\ UNCHANGED <<args, sched, fs0, writable, img, mask, new_alpha, branch, printed>>

\* line 29, the path cannot be written: the error is not caught
SaveFail(c) ==
    /\ pc[c] = "applied"
    /\ args[c].out \notin writable
    /\ pc' = [pc EXCEPT ![c] = "failed"]
    /\ UNCHANGED <<args, sched, fs, fs0, writable, img, mask, new_alpha, branch, written, printed>>

\* line 30
PrintSaved(c) ==
    /\ pc[c] = "saved"
    /\ printed' = Append(printed, args[c].out)
    /\ pc' = [pc EXCEPT ![c] = "done"]
    /\ UNCHANGED <<args, sched, fs, fs0, writable, img, mask, new_alpha, branch, written>>

(***************************************************************************)
(* Specifications.                                                         *)
(***************************************************************************)
NoFiles == [p \in Paths |-> NoFile]

Locals ==
    /\ pc = [c \in Calls |-> "start"]
    /\ img = [c \in Calls |-> NoImage]
    /\ mask = [c \in Calls |-> NoChannel]
    /\ new_alpha = [c \in Calls |-> NoChannel]
    /\ branch = [c \in Calls |-> "none"]
    /\ written = <<>>
    /\ printed = <<>>

\* Spec: add_rounded_corners on any decodable image with any radius, writing
\* to a writable path, and then once more on its own output
Init ==
    /\ \E radius \in 0 .. MaxRadius : args = RerunArgs(radius)
    /\ sched = "seq"
    /\ \E f \in ImageFiles(MaxSide, MaxSide) : fs = [NoFiles EXCEPT ![InPath] = f]
    /\ fs0 = fs
    /\ writable = Paths
    /\ Locals

Next ==
    \E c \in Calls :
        \/ Open(c)
        \/ NewMask(c)
        \/ Draw(c)
        \/ Combine(c)
        \/ PutAlpha(c)
        \/ Save(c)
        \/ PrintSaved(c)

Spec == Init /\ [][Next]_vars

\* SpecMain: the entry point, in any file system
InitFiles ==
    /\ \E f \in ImageFiles(MaxLogoSide, MaxLogoSide) \cup {NoFile} :
       \E o1, o2 \in {NoFile, OldFile} :
            fs = [NoFiles EXCEPT ![LogoPath] = f, ![FaviconPath] = o1, ![PublicFaviconPath] = o2]
    /\ fs0 = fs
    /\ \E w \in SUBSET {FaviconPath, PublicFaviconPath} : writable = w

InitMain ==
    /\ args = MainArgs
    /\ sched = "seq"
    /\ InitFiles
    /\ Locals

NextMain ==
    \E c \in Calls :
        \/ Open(c)
        \/ OpenFail(c)
        \/ NewMask(c)
        \/ Draw(c)
        \/ Combine(c)
        \/ PutAlpha(c)
        \/ Save(c)
        \/ SaveFail(c)
        \/ PrintSaved(c)

SpecMain == InitMain /\ [][NextMain]_vars

\* SpecPar: the two calls of the entry point with their steps interleaved
InitPar ==
    /\ args = MainArgs
    /\ sched = "par"
    /\ InitFiles
    /\ Locals

SpecPar == InitPar /\ [][NextMain]_vars

\* SpecMul: lines 17-26 on a two-pixel image with any alpha and any mask value
TwoPixels(v, w) == [p \in Pixels(2, 1) |-> IF p[1] = 0 THEN v ELSE w]

InitMul ==
    /\ args = RerunArgs(0)
    /\ sched = "seq"
    /\ \E a \in 0 .. MaxVal, m \in 0 .. MaxVal, o \in {0, MaxVal} :
        /\ fs = [NoFiles EXCEPT ![InPath] =
                    [RGBAFile("opaque", 2, 1) EXCEPT !.alpha = TwoPixels(a, MaxVal - o)]]
        /\ mask = [c \in Calls |-> IF c = 1 THEN TwoPixels(m, o) ELSE NoChannel]
    /\ fs0 = fs
    /\ writable = Paths
    /\ pc = [c \in Calls |-> IF c = 1 THEN "drawn" ELSE "start"]
    /\ img = [c \in Calls |-> IF c = 1 THEN ConvertRGBA(fs[InPath]) ELSE NoImage]
    /\ new_alpha = [c \in Calls |-> NoChannel]
    /\ branch = [c \in Calls |-> "none"]
    /\ written = <<>>
    /\ printed = <<>>

NextMul ==
    \E c \in {1} :
        \/ Combine(c)
        \/ PutAlpha(c)

SpecMul == InitMul /\ [][NextMul]_vars

(***************************************************************************)
(* What the properties speak of.                                           *)
(***************************************************************************)
InFile(c) == fs[args[c].in]

\* the alpha of the decoded input at a pixel: an image without an alpha band is opaque
InAlpha(c, p) == IF InFile(c).mode = "RGBA" THEN InFile(c).alpha[p] ELSE MaxVal

InPixels(c) == Pixels(InFile(c).size[1], InFile(c).size[2])

Combined(c) == pc[c] \in {"combined", "applied", "saved", "done"}

\* img[c] holds the output image
Applied(c) == pc[c] \in {"applied", "saved", "done"}

Saved(c) == pc[c] \in {"saved", "done"}

Min(a, b) == IF a <= b THEN a ELSE b

Corners(w, h) == {<<0, 0>>, <<0, h - 1>>, <<w - 1, 0>>, <<w - 1, h - 1>>}

Count(seq, x) == Cardinality({i \in DOMAIN seq : seq[i] = x})

\* C1: the new alpha at a pixel is the product of the input alpha a and the
\* mask value m at that pixel rescaled by 255 (within one unit of a * m / 255,
\* so 255 x 255 gives 255 and anything times 0 gives 0), for every a and m in
\* 0..255, whatever the other pixel holds; putalpha stores it.
C1_MultiplyRescales ==
    \A c \in Calls :
        Combined(c) =>
            \A p \in InPixels(c) :
                LET a == InAlpha(c, p)
                    m == mask[c][p]
                    o == new_alpha[c][p]
                IN  /\ o \in 0 .. MaxVal
                    /\ Abs(a * m - MaxVal * o) < MaxVal
                    /\ (a = MaxVal /\ m = MaxVal => o = MaxVal)
                    /\ (a = 0 \/ m = 0 => o = 0)
                    /\ (Applied(c) => img[c].alpha[p] = o)

C1_Witness ==
    /\ pc[1] = "applied"
    /\ InAlpha(1, <<0, 0>>) = 200
    /\ mask[1][<<0, 0>>] = 100
    /\ img[1].alpha[<<0, 0>>] = 78
    /\ img[1].alpha[<<1, 0>>] = 0

\* C2: at every pixel the output alpha is the minimum of the input alpha and
\* the mask value there; so it is never greater than the input alpha, and a
\* pixel whose input alpha is 0 has output alpha 0.
C2_AlphaIsMin ==
    \A c \in Calls :
        Applied(c) =>
            \A p \in InPixels(c) :
                /\ img[c].alpha[p] = Min(InAlpha(c, p), mask[c][p])
                /\ img[c].alpha[p] <= InAlpha(c, p)
                /\ (InAlpha(c, p) = 0 => img[c].alpha[p] = 0)

C2_Witness ==
    /\ pc[1] = "done"
    /\ \E p, q \in InPixels(1) :
        /\ InAlpha(1, p) = 84 /\ mask[1][p] = MaxVal /\ fs[args[1].out].alpha[p] = 84
        /\ InAlpha(1, q) = 170 /\ mask[1][q] = 0 /\ fs[args[1].out].alpha[q] = 0

C4_RadiusZeroKeepsAlpha ==
    \A c \in Calls :
        (Applied(c) /\ args[c].radius = 0) =>
            \A p \in InPixels(c) : mask[c][p] = MaxVal /\ img[c].alpha[p] = InAlpha(c, p)

C4_Witness ==
    /\ pc[1] = "done"
    /\ args[1].radius = 0
    /\ Width(1) = 3 /\ Height(1) = 2
    /\ InAlpha(1, <<2, 1>>) = 84
    /\ fs[args[1].out].alpha[<<2, 1>>] = 84
    /\ mask[1][<<2, 1>>] = MaxVal

\* C5: for 0 <= radius <= min(W,H)/2, every pixel farther than radius from
\* each of the four image edges keeps its input alpha.
C5_InteriorKeepsAlpha ==
    \A c \in Calls :
        LET w == Width(c)
            h == Height(c)
            r == args[c].radius
        IN  (Applied(c) /\ 2 * r <= Min(w, h)) =>
                \A p \in InPixels(c) :
                    (p[1] > r /\ p[2] > r /\ w - 1 - p[1] > r /\ h - 1 - p[2] > r) =>
                        img[c].alpha[p] = InAlpha(c, p)

C5_Witness ==
    /\ pc[1] = "done"
    /\ args[1].radius = 3
    /\ Width(1) = 9 /\ Height(1) = 10
    /\ InAlpha(1, <<4, 5>>) = 166
    /\ fs[args[1].out].alpha[<<4, 5>>] = 166
    /\ InAlpha(1, <<1, 0>>) = 85
    /\ fs[args[1].out].alpha[<<1, 0>>] = 0

\* C6: the call on the output of a call, with the same radius, writes an
\* image identical to that output: same dimensions, colours and alpha.
C6_SecondRunSameImage ==
    Saved(2) =>
        /\ fs[args[2].out] = fs[args[1].out]
        /\ fs[args[2].out].size = fs[args[1].out].size
        /\ fs[args[2].out].rgb = fs[args[1].out].rgb
        /\ fs[args[2].out].alpha = fs[args[1].out].alpha

C6_Witness ==
    /\ pc[2] = "done"
    /\ args[2].in = args[1].out
    /\ args[2].radius = 3
    /\ fs[InPath].mode = "RGBA"
    /\ \E p, q \in InPixels(2) :
        /\ fs[InPath].alpha[p] = 170 /\ fs[args[2].out].alpha[p] = 170
        /\ fs[InPath].alpha[q] = 85 /\ fs[args[2].out].alpha[q] = 0

\* C7: the mask built during a call has the width and height of the decoded
\* input image, and so has the image the call writes.
C7_SizesKept ==
    \A c \in Calls :
        /\ pc[c] \notin {"start", "failed"} => img[c].size = InFile(c).size
        /\ pc[c] \in {"mask", "drawn"} \/ Combined(c) => DOMAIN mask[c] = InPixels(c)
        /\ Combined(c) => DOMAIN new_alpha[c] = InPixels(c)
        /\ Saved(c) =>
            /\ fs[args[c].out].size = InFile(c).size
            /\ DOMAIN fs[args[c].out].alpha = InPixels(c)
            /\ DOMAIN fs[args[c].out].rgb = InPixels(c)

C7_Witness ==
    /\ pc[1] = "done"
    /\ InFile(1).size = <<5, 3>>
    /\ fs[args[1].out].size = <<5, 3>>
    /\ DOMAIN mask[1] = Pixels(5, 3)

\* C8: for an input without an alpha band the decoded image is RGBA with
\* alpha 255 everywhere, the test of line 17 takes the multiply branch (the
\* branch 'new_alpha = mask' is taken by no call), and the output alpha
\* equals the mask at every pixel.
C8_RGBInputGetsMask ==
    \A c \in Calls :
        /\ branch[c] # "mask"
        /\ (pc[c] \notin {"start", "failed"} /\ InFile(c).mode = "RGB") =>
            /\ img[c].mode = "RGBA"
            /\ pc[c] \in {"opened", "mask", "drawn"} =>
                    \A p \in InPixels(c) : img[c].alpha[p] = MaxVal
            /\ Combined(c) => branch[c] = "multiply" /\ new_alpha[c] = mask[c]
            /\ Applied(c) => img[c].alpha = mask[c]
            /\ Saved(c) => fs[args[c].out].alpha = mask[c]

C8_Witness ==
    /\ pc[1] = "done"
    /\ InFile(1).mode = "RGB"
    /\ args[1].radius = 2
    /\ Width(1) = 7 /\ Height(1) = 6
    /\ fs[args[1].out].alpha = mask[1]
    /\ mask[1][<<0, 0>>] = 0
    /\ mask[1][<<3, 3>>] = MaxVal

Terminated(c) == pc[c] \in {"done", "failed"}

\* the files the entry point leaves when its two calls run one after the
\* other from the file system fs0: an error in the first call ends the run
SequentialOutcome ==
    LET f == fs0[LogoPath]
        t == RoundCorners(f, MainRadius)
        first == f # NoFile /\ FaviconPath \in writable
        second == first /\ PublicFaviconPath \in writable
        after1 == IF first THEN [fs0 EXCEPT ![FaviconPath] = t] ELSE fs0
    IN  IF second THEN [after1 EXCEPT ![PublicFaviconPath] = t] ELSE after1

C10_OneFileOneLineOrAbort ==
    /\ \A c \in Calls :
        /\ pc[c] = "done" =>
                Count(written, args[c].out) = 1 /\ Count(printed, args[c].out) = 1
        /\ pc[c] = "saved" =>
                Count(written, args[c].out) = 1 /\ Count(printed, args[c].out) = 0
        /\ ~Saved(c) =>
                Count(written, args[c].out) = 0 /\ Count(printed, args[c].out) = 0
    /\ Len(written) = Cardinality({c \in Calls : Saved(c)})
    /\ Len(printed) = Cardinality({c \in Calls : pc[c] = "done"})
    /\ \A p \in Paths : fs[p] # fs0[p] => \E c \in Calls : Saved(c) /\ p = args[c].out
    /\ pc[1] = "failed" =>
        /\ pc[2] = "start"
        /\ ~ENABLED NextMain
        /\ Count(written, PublicFaviconPath) = 0
        /\ Count(printed, PublicFaviconPath) = 0
        /\ fs[PublicFaviconPath] = fs0[PublicFaviconPath]

C10_Witness ==
    /\ sched = "seq"
    /\ pc[1] = "failed" /\ pc[2] = "start"
    /\ fs0[LogoPath] # NoFile
    /\ img[1] = RoundCorners(fs0[LogoPath], MainRadius)
    /\ PublicFaviconPath \in writable
    /\ fs[PublicFaviconPath] = NoFile
    /\ printed = <<>>

====
